---- MODULE Spec2Model ----
(***************************************************************************)
(* The chat-completions request editor of assets/js/app.js: the form, the  *)
(* validation pass (validateAndBuild), the display pass (sync), the reset, *)
(* copy, input and change handlers, the debounced draft persistence and    *)
(* the schema load.                                                        *)
(*                                                                         *)
(* Texts typed by the user are sequences of one-character strings, so that *)
(* trimming, the integer pattern, Number(), JSON.parse and JSON.stringify   *)
(* are computed on the characters; field names, object keys and output     *)
(* texts are such sequences too.  Numbers are fixed-point integers: the    *)
(* number x is held as x * Scale, which is exact for the decimal texts of  *)
(* the model (at most FracDigits fractional digits, no exponent).          *)
(***************************************************************************)
EXTENDS Integers, Sequences, FiniteSets, TLC

(***************************************************************************)
(* Bounds of the model.                                                    *)
(***************************************************************************)
\* Fractional decimal digits a number of the model carries.
FracDigits == 4

RECURSIVE Pow10(_)
Pow10(n) == IF n = 0 THEN 1 ELSE 10 * Pow10(n - 1)

Scale == Pow10(FracDigits)

(***************************************************************************)
(* JavaScript values.  An object is the sequence of its entries in         *)
(* insertion order, with distinct keys.                                    *)
(***************************************************************************)
Undefined == [t |-> "undefined", v |-> 0]
JNull == [t |-> "null", v |-> 0]
Num(n) == [t |-> "num", v |-> n]
JStr(cs) == [t |-> "str", v |-> cs]
JBool(b) == [t |-> "bool", v |-> b]
JArr(xs) == [t |-> "arr", v |-> xs]
JObj(es) == [t |-> "obj", v |-> es]

\* typeof v === "object" && v !== null && !Array.isArray(v)
isPlainObject(v) == v.t = "obj"

ObjKeys(es) == {es[i].k : i \in 1..Len(es)}

ObjHas(es, k) == \E i \in 1..Len(es) : es[i].k = k

ObjGet(es, k) == es[CHOOSE i \in 1..Len(es) : es[i].k = k].v

\* obj[k] = v: an existing key keeps its place, a new key goes last.
ObjSet(es, k, v) ==
  IF ObjHas(es, k)
    THEN [i \in 1..Len(es) |-> IF es[i].k = k THEN [k |-> k, v |-> v] ELSE es[i]]
    ELSE Append(es, [k |-> k, v |-> v])

RECURSIVE ObjAssign(_, _)
\* Object.assign(target, src)
ObjAssign(target, src) ==
  IF src = <<>> THEN target
  ELSE ObjAssign(ObjSet(target, Head(src).k, Head(src).v), Tail(src))

(***************************************************************************)
(* Characters and strings.                                                 *)
(***************************************************************************)
\* White space String.prototype.trim removes, within the model's alphabet.
IsWs(c) == c \in {" ", "\n", "\t"}

DigitChars == <<"0", "1", "2", "3", "4", "5", "6", "7", "8", "9">>

IsDigit(c) == \E d \in 1..10 : DigitChars[d] = c

DigitVal(c) == (CHOOSE d \in 1..10 : DigitChars[d] = c) - 1

AllDigits(cs) == \A i \in 1..Len(cs) : IsDigit(cs[i])

RECURSIVE DigitsVal(_)
DigitsVal(cs) ==
  IF cs = <<>> THEN 0
  ELSE DigitsVal(SubSeq(cs, 1, Len(cs) - 1)) * 10 + DigitVal(cs[Len(cs)])

RECURSIVE TrimLeft(_)
TrimLeft(s) == IF s # <<>> /\ IsWs(Head(s)) THEN TrimLeft(Tail(s)) ELSE s

RECURSIVE TrimRight(_)
TrimRight(s) ==
  IF s # <<>> /\ IsWs(s[Len(s)]) THEN TrimRight(SubSeq(s, 1, Len(s) - 1)) ELSE s

\* (s || "").trim()
trimOrEmpty(s) == TrimRight(TrimLeft(s))

\* The value of the fraction digits fs, in units of 1/Scale.
FracVal(fs) ==
  IF Len(fs) <= FracDigits
    THEN DigitsVal(fs) * Pow10(FracDigits - Len(fs))
    ELSE DigitsVal(SubSeq(fs, 1, FracDigits))

\* The first index of character c in s, or 0.
IndexOf(s, c) ==
  IF \E i \in 1..Len(s) : s[i] = c
    THEN CHOOSE i \in 1..Len(s) : s[i] = c /\ \A j \in 1..(i - 1) : s[j] # c
    ELSE 0

(***************************************************************************)
(* parseIntOpt, parseFloatOpt.                                             *)
(***************************************************************************)
\* The number of the digits ds with a sign, undefined when ds is not \d+.
SignedDigits(ds, sign) ==
  IF ds = <<>> \/ ~AllDigits(ds) THEN Undefined ELSE Num(sign * DigitsVal(ds) * Scale)

\* t is trimmed: /^-?\d+$/ then Number.parseInt(t, 10).
IntOfTrimmed(t) ==
  IF t = <<>> THEN Undefined
  ELSE IF Head(t) = "-" THEN SignedDigits(Tail(t), -1)
  ELSE SignedDigits(t, 1)

parseIntOpt(s) == IntOfTrimmed(trimOrEmpty(s))

\* The number of integer digits ip and fraction digits fp, undefined (NaN)
\* when they are no digits or there is none.
DecimalVal(ip, fp, sign) ==
  IF AllDigits(ip) /\ AllDigits(fp) /\ Len(ip) + Len(fp) >= 1
    THEN Num(sign * (DigitsVal(ip) * Scale + FracVal(fp)))
    ELSE Undefined

\* u is the literal after its sign, dot the index of its point or 0.
DecimalAt(u, dot, sign) ==
  IF dot = 0 THEN DecimalVal(u, <<>>, sign)
  ELSE DecimalVal(SubSeq(u, 1, dot - 1), SubSeq(u, dot + 1, Len(u)), sign)

\* t is trimmed: Number(t) on a decimal literal, an optional sign and digits
\* with an optional point; every other text of the alphabet is NaN, which is
\* not finite.
FloatOfTrimmed(t) ==
  IF t = <<>> THEN Undefined
  ELSE IF Head(t) \in {"-", "+"}
    THEN DecimalAt(Tail(t), IndexOf(Tail(t), "."), IF Head(t) = "-" THEN -1 ELSE 1)
  ELSE DecimalAt(t, IndexOf(t, "."), 1)

parseFloatOpt(s) == FloatOfTrimmed(trimOrEmpty(s))

(***************************************************************************)
(* JSON.parse on the characters of a text.  A parse step yields            *)
(* [ok, val, pos]: whether a value was read, the value, and the index      *)
(* after it.  The grammar is JSON's without the \b, \f and \u escapes and  *)
(* number exponents, which the texts of the model do not use.              *)
(***************************************************************************)
Fail == [ok |-> FALSE, val |-> Undefined, pos |-> 0]

Ok(v, p) == [ok |-> TRUE, val |-> v, pos |-> p]

RECURSIVE SkipWs(_, _)
SkipWs(s, i) ==
  IF i <= Len(s) /\ s[i] \in {" ", "\n", "\t", "\r"} THEN SkipWs(s, i + 1) ELSE i

RECURSIVE DigitRunEnd(_, _)
\* The first index at or after i that holds no digit.
DigitRunEnd(s, i) == IF i <= Len(s) /\ IsDigit(s[i]) THEN DigitRunEnd(s, i + 1) ELSE i

ParseLiteral(s, i, word, v) ==
  IF i + Len(word) - 1 <= Len(s) /\ SubSeq(s, i, i + Len(word) - 1) = word
    THEN Ok(v, i + Len(word))
    ELSE Fail

\* A number whose integer digits run from j to k - 1 and whose fraction
\* digits, after a point at k, run to m - 1 (m = k: no fraction).
NumberAt(s, j, k, m, sign) ==
  IF k = j \/ (k - j > 1 /\ s[j] = "0") \/ (m > k /\ m = k + 1) THEN Fail
  ELSE Ok(Num(sign * (DigitsVal(SubSeq(s, j, k - 1)) * Scale
                        + FracVal(SubSeq(s, k + 1, m - 1)))), m)

\* The integer digits run from j to k - 1.
NumberFrom(s, j, k, sign) ==
  IF k <= Len(s) /\ s[k] = "." THEN NumberAt(s, j, k, DigitRunEnd(s, k + 1), sign)
  ELSE NumberAt(s, j, k, k, sign)

ParseNumber(s, i) ==
  IF s[i] = "-" THEN NumberFrom(s, i + 1, DigitRunEnd(s, i + 1), -1)
  ELSE NumberFrom(s, i, DigitRunEnd(s, i), 1)

RECURSIVE ScanString(_, _, _)
\* The characters of a string from index i to its closing quote, acc the
\* characters read so far.
ScanString(s, i, acc) ==
  IF i > Len(s) THEN Fail
  ELSE IF s[i] = "\"" THEN Ok(JStr(acc), i + 1)
  ELSE IF s[i] \in {"\n", "\t", "\r"} THEN Fail
  ELSE IF s[i] # "\\" THEN ScanString(s, i + 1, Append(acc, s[i]))
  ELSE IF i + 1 > Len(s) THEN Fail
  ELSE CASE s[i + 1] = "\"" -> ScanString(s, i + 2, Append(acc, "\""))
         [] s[i + 1] = "\\" -> ScanString(s, i + 2, Append(acc, "\\"))
         [] s[i + 1] = "/" -> ScanString(s, i + 2, Append(acc, "/"))
         [] s[i + 1] = "n" -> ScanString(s, i + 2, Append(acc, "\n"))
         [] s[i + 1] = "t" -> ScanString(s, i + 2, Append(acc, "\t"))
         [] s[i + 1] = "r" -> ScanString(s, i + 2, Append(acc, "\r"))
         [] OTHER -> Fail

\* s[i] is the opening quote.
ParseString(s, i) == ScanString(s, i + 1, <<>>)

RECURSIVE ParseValue(_, _)
RECURSIVE ParseElems(_, _, _)
RECURSIVE ParseMembers(_, _, _)

\* After "[": j is the index after the white space.
ArrayBody(s, j) ==
  IF j <= Len(s) /\ s[j] = "]" THEN Ok(JArr(<<>>), j + 1) ELSE ParseElems(s, j, <<>>)

\* After "{": j is the index after the white space.
ObjectBody(s, j) ==
  IF j <= Len(s) /\ s[j] = "}" THEN Ok(JObj(<<>>), j + 1) ELSE ParseMembers(s, j, <<>>)

\* A value at index i, which holds no white space.
ValueAt(s, i) ==
  IF i > Len(s) THEN Fail
  ELSE CASE s[i] = "{" -> ObjectBody(s, SkipWs(s, i + 1))
         [] s[i] = "[" -> ArrayBody(s, SkipWs(s, i + 1))
         [] s[i] = "\"" -> ParseString(s, i)
         [] s[i] = "-" \/ IsDigit(s[i]) -> ParseNumber(s, i)
         [] s[i] = "t" -> ParseLiteral(s, i, <<"t", "r", "u", "e">>, JBool(TRUE))
         [] s[i] = "f" -> ParseLiteral(s, i, <<"f", "a", "l", "s", "e">>, JBool(FALSE))
         [] s[i] = "n" -> ParseLiteral(s, i, <<"n", "u", "l", "l">>, JNull)
         [] OTHER -> Fail

ParseValue(s, i) == ValueAt(s, SkipWs(s, i))

\* After the elements acc of an array: j is the index after the white space.
ElemsNext(s, acc, j) ==
  IF j > Len(s) THEN Fail
  ELSE IF s[j] = "," THEN ParseElems(s, j + 1, acc)
  ELSE IF s[j] = "]" THEN Ok(JArr(acc), j + 1)
  ELSE Fail

\* r is the parse of one more element.
ElemsWith(s, acc, r) ==
  IF ~r.ok THEN Fail ELSE ElemsNext(s, Append(acc, r.val), SkipWs(s, r.pos))

\* The elements of an array after "[" or ",", acc the elements read so far.
ParseElems(s, i, acc) == ElemsWith(s, acc, ParseValue(s, i))

\* After the entries es of an object: j is the index after the white space.
MembersNext(s, es, j) ==
  IF j > Len(s) THEN Fail
  ELSE IF s[j] = "," THEN ParseMembers(s, j + 1, es)
  ELSE IF s[j] = "}" THEN Ok(JObj(es), j + 1)
  ELSE Fail

\* r is the parse of the value of key k; a repeated key keeps its first
\* place and takes its last value.
MemberWith(s, acc, k, r) ==
  IF ~r.ok THEN Fail ELSE MembersNext(s, ObjSet(acc, k, r.val), SkipWs(s, r.pos))

\* After the key k: c is the index after the white space.
MemberColon(s, acc, k, c) ==
  IF c <= Len(s) /\ s[c] = ":" THEN MemberWith(s, acc, k, ParseValue(s, c + 1)) ELSE Fail

\* key is the parse of the key's string.
MemberKey(s, acc, key) ==
  IF ~key.ok THEN Fail ELSE MemberColon(s, acc, key.val.v, SkipWs(s, key.pos))

\* A member at index i, which holds no white space.
MemberAt(s, acc, i) ==
  IF i <= Len(s) /\ s[i] = "\"" THEN MemberKey(s, acc, ParseString(s, i)) ELSE Fail

\* The members of an object after "{" or ",", acc the entries read so far.
ParseMembers(s, i, acc) == MemberAt(s, acc, SkipWs(s, i))

\* r is the parse of the trimmed text t; JSON.parse throws unless the text is
\* one value and white space.
JsonResult(t, r) ==
  IF r.ok /\ SkipWs(t, r.pos) > Len(t) THEN [threw |-> FALSE, val |-> r.val]
  ELSE [threw |-> TRUE, val |-> Undefined]

JsonOfTrimmed(t) ==
  IF t = <<>> THEN [threw |-> FALSE, val |-> Undefined] ELSE JsonResult(t, ParseValue(t, 1))

\* parseJsonOpt: undefined for a blank text, else JSON.parse(t).  [threw, val]
parseJsonOpt(s) == JsonOfTrimmed(trimOrEmpty(s))

(***************************************************************************)
(* JSON.stringify(v): the compact text of a value.                         *)
(***************************************************************************)
RECURSIVE NatStr(_)
NatStr(n) ==
  IF n < 10 THEN <<DigitChars[n + 1]>>
  ELSE Append(NatStr(n \div 10), DigitChars[(n % 10) + 1])

RECURSIVE PadDigits(_, _)
\* The w low decimal digits of g.
PadDigits(g, w) ==
  IF w = 0 THEN <<>> ELSE Append(PadDigits(g \div 10, w - 1), DigitChars[(g % 10) + 1])

RECURSIVE FracStr(_, _)
\* The digits of f / 10^w without trailing zeros, 0 < f < 10^w.
FracStr(f, w) == IF f % 10 = 0 THEN FracStr(f \div 10, w - 1) ELSE PadDigits(f, w)

NumStr(n) ==
  LET a == IF n < 0 THEN -n ELSE n
      body == IF a % Scale = 0 THEN NatStr(a \div Scale)
              ELSE NatStr(a \div Scale) \o <<".">> \o FracStr(a % Scale, FracDigits)
  IN IF n < 0 THEN <<"-">> \o body ELSE body

EscapeChar(c) ==
  CASE c = "\"" -> <<"\\", "\"">>
    [] c = "\\" -> <<"\\", "\\">>
    [] c = "\n" -> <<"\\", "n">>
    [] c = "\t" -> <<"\\", "t">>
    [] c = "\r" -> <<"\\", "r">>
    [] OTHER -> <<c>>

RECURSIVE QuoteChars(_)
QuoteChars(cs) == IF cs = <<>> THEN <<>> ELSE EscapeChar(Head(cs)) \o QuoteChars(Tail(cs))

Quote(cs) == <<"\"">> \o QuoteChars(cs) \o <<"\"">>

RECURSIVE Stringify(_)
RECURSIVE StringifyElems(_)
RECURSIVE StringifyEntries(_)

Stringify(v) ==
  CASE v.t = "num" -> NumStr(v.v)
    [] v.t = "str" -> Quote(v.v)
    [] v.t = "bool" -> IF v.v THEN <<"t", "r", "u", "e">> ELSE <<"f", "a", "l", "s", "e">>
    [] v.t = "null" -> <<"n", "u", "l", "l">>
    [] v.t = "arr" -> <<"[">> \o StringifyElems(v.v) \o <<"]">>
    [] v.t = "obj" -> <<"{">> \o StringifyEntries(v.v) \o <<"}">>

StringifyElems(xs) ==
  IF xs = <<>> THEN <<>>
  ELSE Stringify(Head(xs))
         \o (IF Len(xs) = 1 THEN <<>> ELSE <<",">> \o StringifyElems(Tail(xs)))

StringifyEntries(es) ==
  IF es = <<>> THEN <<>>
  ELSE Quote(Head(es).k) \o <<":">> \o Stringify(Head(es).v)
         \o (IF Len(es) = 1 THEN <<>> ELSE <<",">> \o StringifyEntries(Tail(es)))


(***************************************************************************)
(* The validation pass.  A rendered field is                               *)
(* [name, kind, required, opts]: the data-field, data-kind and             *)
(* data-required attributes renderField sets, and the option values of a   *)
(* select or a group of checkboxes.  The raw state of a control is its     *)
(* text; for a group of checkboxes, the checked values in DOM order.       *)
(* An error message is [field, kind]: the field it names and which         *)
(* message it is.                                                          *)
(***************************************************************************)
Kinds == {"bool", "int", "float", "string", "string_select", "stop_lines", "checks", "json"}

\* The message `${name} <parse failed>: ${ex.message}` of the catch blocks;
\* detail is the thrown message: "int" (must be an integer), "float" (must
\* be a number) or "json" (the SyntaxError of JSON.parse).
ParseError(name, detail) == [field |-> name, kind |-> "parse_" \o detail]

\* The message `${name} <is a required field>`.
RequiredError(name) == [field |-> name, kind |-> "required"]

\* The messages "temperature <range is> 0~2" and the like.
RangeError(name) == [field |-> name, kind |-> "range"]

\* The message "logit_bias <must be a> JSON object (token_id -> int)".
NotObjectError(name) == [field |-> name, kind |-> "not_object"]

K_model == <<"m", "o", "d", "e", "l">>
K_messages == <<"m", "e", "s", "s", "a", "g", "e", "s">>
K_extra == <<"e", "x", "t", "r", "a">>
K_temperature == <<"t", "e", "m", "p", "e", "r", "a", "t", "u", "r", "e">>
K_top_p == <<"t", "o", "p", "_", "p">>
K_presence_penalty ==
  <<"p", "r", "e", "s", "e", "n", "c", "e", "_", "p", "e", "n", "a", "l", "t", "y">>
K_frequency_penalty ==
  <<"f", "r", "e", "q", "u", "e", "n", "c", "y", "_", "p", "e", "n", "a", "l", "t", "y">>
K_logit_bias == <<"l", "o", "g", "i", "t", "_", "b", "i", "a", "s">>

\* The message "extra <must be a> JSON object".
ExtraNotObjectError == [field |-> K_extra, kind |-> "extra_not_object"]

\* The message `extra JSON <parse failed>: ${ex.message}`.
ExtraParseError == [field |-> K_extra, kind |-> "extra_parse"]

RECURSIVE SplitLines(_)
\* s.split("\n")
SplitLines(s) ==
  LET n == IndexOf(s, "\n")
  IN IF n = 0 THEN <<s>>
     ELSE <<SubSeq(s, 1, n - 1)>> \o SplitLines(SubSeq(s, n + 1, Len(s)))

\* s.split("\n").map((x) => x.trim()).filter(Boolean)
StopLines(s) ==
  LET parts == SplitLines(s)
      trimmed == [i \in 1..Len(parts) |-> trimOrEmpty(parts[i])]
  IN SelectSeq(trimmed, LAMBDA x : x # <<>>)

StrArray(xs) == JArr([i \in 1..Len(xs) |-> JStr(xs[i])])

\* The two ends of the try block of one field: [threw, detail, value], value
\* Undefined when the field is omitted.
Done(v) == [threw |-> FALSE, detail |-> "", value |-> v]

Throw(detail) == [threw |-> TRUE, detail |-> detail, value |-> Undefined]

\* if (n === undefined) throw new Error(...); value = n
NumberOrThrow(n, detail) == IF n = Undefined THEN Throw(detail) ELSE Done(n)

\* value = parseJsonOpt(s), r its outcome.
JsonOrThrow(r) == IF r.threw THEN Throw("json") ELSE Done(r.val)

\* lines.length === 0 ? undefined : lines.length === 1 ? lines[0] : lines
LinesValue(lines) ==
  IF Len(lines) = 0 THEN Done(Undefined)
  ELSE IF Len(lines) = 1 THEN Done(JStr(lines[1]))
  ELSE Done(StrArray(lines))

\* The try block of one field, t the trimmed raw text.
CoerceTrimmed(kind, raw, t) ==
  CASE kind = "checks" -> Done(IF Len(raw) > 0 THEN StrArray(raw) ELSE Undefined)
    [] kind = "bool" -> Done(IF raw = <<>> THEN Undefined ELSE JBool(raw = <<"t", "r", "u", "e">>))
    [] kind = "int" ->
         IF t = <<>> THEN Done(Undefined) ELSE NumberOrThrow(parseIntOpt(raw), "int")
    [] kind = "float" ->
         IF t = <<>> THEN Done(Undefined) ELSE NumberOrThrow(parseFloatOpt(raw), "float")
    [] kind \in {"string", "string_select"} -> Done(IF t # <<>> THEN JStr(t) ELSE Undefined)
    [] kind = "stop_lines" -> LinesValue(StopLines(raw))
    [] OTHER -> IF t = <<>> THEN Done(Undefined) ELSE JsonOrThrow(parseJsonOpt(raw))

\* Coerce without the trim of the text before the test for a blank one.
CoerceUntrimmed(kind, raw) == CoerceTrimmed(kind, raw, raw)

\* The checked values of a group of checkboxes are not trimmed.
Coerce(kind, raw) ==
  CoerceTrimmed(kind, raw, IF kind = "checks" THEN <<>> ELSE trimOrEmpty(raw))

\* CollectCoerced with a catch that pushes no message.
CollectCoercedSilent(acc, f, c) ==
  IF c.threw THEN acc
  ELSE [errors |-> IF f.required /\ c.value = Undefined
                     THEN Append(acc.errors, RequiredError(f.name))
                     ELSE acc.errors,
        values |-> IF c.value # Undefined
                     THEN ObjSet(acc.values, f.name, c.value)
                     ELSE acc.values]

\* CollectCoerced with a failure that discards what the pass collected so far.
CollectCoercedAbort(acc, f, c) ==
  IF c.threw
    THEN [errors |-> <<ParseError(f.name, c.detail)>>, values |-> <<>>]
    ELSE [errors |-> IF f.required /\ c.value = Undefined
                       THEN Append(acc.errors, RequiredError(f.name))
                       ELSE acc.errors,
          values |-> IF c.value # Undefined
                       THEN ObjSet(acc.values, f.name, c.value)
                       ELSE acc.values]

\* CollectCoerced without the required test.
CollectCoercedNoRequired(acc, f, c) ==
  IF c.threw
    THEN [errors |-> Append(acc.errors, ParseError(f.name, c.detail)), values |-> acc.values]
    ELSE [errors |-> acc.errors,
          values |-> IF c.value # Undefined
                       THEN ObjSet(acc.values, f.name, c.value)
                       ELSE acc.values]

\* After the try block of field f with outcome c: the catch pushes the parse
\* message and returns; else the required test and the assignment.
CollectCoerced(acc, f, c) ==
  IF c.threw
    THEN [errors |-> Append(acc.errors, ParseError(f.name, c.detail)), values |-> acc.values]
    ELSE [errors |-> IF f.required /\ c.value = Undefined
                       THEN Append(acc.errors, RequiredError(f.name))
                       ELSE acc.errors,
          values |-> IF c.value # Undefined
                       THEN ObjSet(acc.values, f.name, c.value)
                       ELSE acc.values]

\* One turn of the forEach over the rendered items: acc is [errors, values].
CollectItem(acc, f, raw) ==
  IF f.name = <<>> THEN acc ELSE CollectCoerced(acc, f, Coerce(f.kind, raw))

RECURSIVE CollectFrom(_, _, _, _)
CollectFrom(acc, items, raws, i) ==
  IF i > Len(items) THEN acc
  ELSE CollectFrom(CollectItem(acc, items[i], raws[i]), items, raws, i + 1)

\* The loop over the items of one host, started with the errors so far and
\* no values.
Collect(errs, items, raws) == CollectFrom([errors |-> errs, values |-> <<>>], items, raws, 1)

\* NumberOutside with the two bounds excluded from the range.
NumberOutsideStrict(v, lo, hi) == v.t = "num" /\ (v.v <= lo * Scale \/ v.v >= hi * Scale)

\* typeof v === "number" && (v < lo || v > hi)
NumberOutside(v, lo, hi) == v.t = "num" /\ (v.v < lo * Scale \/ v.v > hi * Scale)

\* The range message of field k, if its value is a number outside lo..hi.
RangeCheck(es, k, lo, hi) ==
  IF ObjHas(es, k) /\ NumberOutside(ObjGet(es, k), lo, hi) THEN <<RangeError(k)>> ELSE <<>>

\* autoValues.logit_bias !== undefined && !isPlainObject(autoValues.logit_bias)
ShapeCheck(es, k) ==
  IF ObjHas(es, k) /\ ~isPlainObject(ObjGet(es, k)) THEN <<NotObjectError(k)>> ELSE <<>>

\* The range and shape checks on the body values, in the order of the code.
RangeErrors(autoValues) ==
  RangeCheck(autoValues, K_temperature, 0, 2)
    \o RangeCheck(autoValues, K_top_p, 0, 1)
    \o RangeCheck(autoValues, K_presence_penalty, -2, 2)
    \o RangeCheck(autoValues, K_frequency_penalty, -2, 2)
    \o ShapeCheck(autoValues, K_logit_bias)

NoExtra(errs) == [errors |-> errs, has |-> FALSE, obj |-> <<>>]

\* r is the outcome of parseJsonOpt on a text that is not blank.
ExtraOf(r) ==
  IF r.threw THEN NoExtra(<<ExtraParseError>>)
  ELSE IF ~isPlainObject(r.val) THEN NoExtra(<<ExtraNotObjectError>>)
  ELSE [errors |-> <<>>, has |-> TRUE, obj |-> r.val.v]

\* The extra text: [errors, has, obj], has when extra is a parsed object.
ParseExtra(extraText) ==
  IF trimOrEmpty(extraText) = <<>> THEN NoExtra(<<>>) ELSE ExtraOf(parseJsonOpt(extraText))

\* BuildBody with the body fields assigned after the extra keys.
BuildBodyExtraFirst(model, autoValues, extra) ==
  ObjAssign(ObjAssign(IF model # <<>> THEN <<[k |-> K_model, v |-> JStr(model)]>> ELSE <<>>,
                      IF extra.has THEN extra.obj ELSE <<>>),
            autoValues)

\* body = {}; if (model) body.model = model; Object.assign(body, autoValues);
\* if (extra) Object.assign(body, extra)
BuildBody(model, autoValues, extra) ==
  ObjAssign(ObjAssign(IF model # <<>> THEN <<[k |-> K_model, v |-> JStr(model)]>> ELSE <<>>,
                      autoValues),
            IF extra.has THEN extra.obj ELSE <<>>)

\* merged = {}; Object.assign(merged, body); Object.assign(merged, optionValues)
BuildMerged(body, optionValues) == ObjAssign(ObjAssign(<<>>, body), optionValues)

\* The value validateAndBuild returns.
Result(errors, body, optionValues) ==
  [ok |-> Len(errors) = 0, errors |-> errors, body |-> body, options |-> optionValues,
   merged |-> BuildMerged(body, optionValues)]

\* a and o are the outcomes of the two loops, x of the extra text.
Compose(model, a, o, x) ==
  Result(o.errors \o RangeErrors(a.values) \o x.errors, BuildBody(model, a.values, x),
         o.values)

\* The loop over the request options and the rest, a the outcome of the loop
\* over the body fields.
ValidateRest(form, optItems, a) ==
  Compose(trimOrEmpty(form.model), a, Collect(a.errors, optItems, form.opts),
          ParseExtra(form.extra))

\* form is [model, extra, auto, opts]: the raw state of the model input, the
\* extra text area and the controls of the two hosts.
validateAndBuild(form, autoItems, optItems) ==
  ValidateRest(form, optItems, Collect(<<>>, autoItems, form.auto))

(***************************************************************************)
(* The draft: snapshotForm, applyDraft and the local storage item.         *)
(* The storage item is [has, raw]: whether the key is set, and its text.   *)
(***************************************************************************)
K_auto == <<"a", "u", "t", "o">>
K_options == <<"o", "p", "t", "i", "o", "n", "s">>

NoItem == [has |-> FALSE, raw |-> <<>>]

Item(text) == [has |-> TRUE, raw |-> text]

RECURSIVE SnapshotHost(_, _, _, _)
\* The auto or options object of a draft: every group of checkboxes, and
\* every other control whose value is not "".
SnapshotHost(acc, items, raws, i) ==
  IF i > Len(items) THEN acc
  ELSE LET f == items[i]
           next == IF f.name = <<>> THEN acc
                   ELSE IF f.kind = "checks" THEN ObjSet(acc, f.name, StrArray(raws[i]))
                   ELSE IF raws[i] # <<>> THEN ObjSet(acc, f.name, JStr(raws[i]))
                   ELSE acc
       IN SnapshotHost(next, items, raws, i + 1)

snapshotForm(form, autoItems, optItems) ==
  LET model == trimOrEmpty(form.model)
      d0 == IF model # <<>> THEN <<[k |-> K_model, v |-> JStr(model)]>> ELSE <<>>
      d1 == IF trimOrEmpty(form.extra) # <<>> THEN ObjSet(d0, K_extra, JStr(form.extra)) ELSE d0
      d2 == ObjSet(d1, K_auto, JObj(SnapshotHost(<<>>, autoItems, form.auto, 1)))
  IN JObj(ObjSet(d2, K_options, JObj(SnapshotHost(<<>>, optItems, form.opts, 1))))

\* r is the outcome of parseJsonOpt on the item's text.
DraftOf(r) == IF r.threw \/ ~isPlainObject(r.val) THEN <<>> ELSE r.val.v

\* readDraft: {} for no item, an empty item, a text that does not parse or a
\* value that is no object.
readDraft(item) ==
  IF ~item.has \/ trimOrEmpty(item.raw) = <<>> THEN <<>> ELSE DraftOf(parseJsonOpt(item.raw))

RECURSIVE JoinStrings(_)
JoinStrings(xs) ==
  IF xs = <<>> THEN <<>>
  ELSE IF Len(xs) = 1 THEN xs[1]
  ELSE xs[1] \o <<",">> \o JoinStrings(Tail(xs))

RECURSIVE JsString(_)
\* String(v)
JsString(v) ==
  CASE v.t = "str" -> v.v
    [] v.t = "num" -> NumStr(v.v)
    [] v.t = "bool" -> IF v.v THEN <<"t", "r", "u", "e">> ELSE <<"f", "a", "l", "s", "e">>
    [] v.t = "null" -> <<"n", "u", "l", "l">>
    [] v.t = "arr" ->
         JoinStrings([i \in 1..Len(v.v) |->
                        IF v.v[i].t = "null" THEN <<>> ELSE JsString(v.v[i])])
    [] v.t = "obj" ->
         <<"[", "o", "b", "j", "e", "c", "t", " ", "O", "b", "j", "e", "c", "t", "]">>

\* The values a control of the field can hold: a select holds one of its
\* options, a one-line input holds no line break.
SelectValues(f) ==
  IF f.kind = "bool" THEN {<<>>, <<"f", "a", "l", "s", "e">>, <<"t", "r", "u", "e">>}
  ELSE {<<>>} \cup {f.opts[i] : i \in 1..Len(f.opts)}

\* Assigning a text to the value of the field's control.
SetValue(f, text) ==
  IF f.kind \in {"bool", "string_select"}
    THEN IF text \in SelectValues(f) THEN text ELSE <<>>
  ELSE IF f.kind \in {"int", "float", "string"}
    THEN SelectSeq(text, LAMBDA c : c \notin {"\n", "\r"})
  ELSE text

\* One control after applyDraft, src the auto or options object of the draft.
ApplyToControl(src, f, raw) ==
  IF f.name = <<>> \/ ~ObjHas(src, f.name) THEN raw
  ELSE LET v == ObjGet(src, f.name)
           want == IF v.t = "arr" THEN {JsString(v.v[i]) : i \in 1..Len(v.v)} ELSE {}
       IN IF f.kind = "checks" THEN SelectSeq(f.opts, LAMBDA o : o \in want)
          ELSE SetValue(f, IF v.t = "null" THEN <<>> ELSE JsString(v))

applyDraft(draft, form, autoItems, optItems) ==
  LET sub(k) == IF ObjHas(draft, k) /\ isPlainObject(ObjGet(draft, k))
                  THEN ObjGet(draft, k).v ELSE <<>>
      str(k, old) == IF ObjHas(draft, k) /\ ObjGet(draft, k).t = "str"
                       THEN ObjGet(draft, k).v ELSE old
  IN [model |-> SelectSeq(str(K_model, form.model), LAMBDA c : c \notin {"\n", "\r"}),
      extra |-> str(K_extra, form.extra),
      auto |-> [i \in 1..Len(autoItems) |->
                  ApplyToControl(sub(K_auto), autoItems[i], form.auto[i])],
      opts |-> [i \in 1..Len(optItems) |->
                  ApplyToControl(sub(K_options), optItems[i], form.opts[i])]]

(***************************************************************************)
(* Environments: the schema document the fetch serves, the texts the user  *)
(* may enter into each control, whether localStorage.setItem succeeds      *)
(* (it throws in private mode or over quota, which writeDraft ignores),    *)
(* whether the clipboard accepts a write (copyToClipboard yields false     *)
(* without the permission), and the storage item at page load.             *)
(* A schema field is [name, kind, required, opts, inputs]: kind and opts   *)
(* are what fieldKind and the option parsers give for its type and         *)
(* description, inputs the texts the user may enter into its control.      *)
(***************************************************************************)
Field(name, kind, required, opts, inputs) ==
  [name |-> name, kind |-> kind, required |-> required, opts |-> opts, inputs |-> inputs]

Env(body, options, flat, modelIn, extraIn, writable, clip, stored) ==
  [schema |-> [has_body_fields |-> ~flat,
               body_fields |-> IF flat THEN <<>> ELSE body,
               fields |-> IF flat THEN body ELSE <<>>,
               request_options |-> options],
   inputs |-> [model |-> modelIn, extra |-> extraIn],
   storageWritable |-> writable, clipboardAllowed |-> clip, stored |-> stored]

K_a == <<"a">>
K_b == <<"b">>
K_n == <<"n">>
K_foo == <<"f", "o", "o">>
K_stop == <<"s", "t", "o", "p">>

T_true == <<"t", "r", "u", "e">>
T_false == <<"f", "a", "l", "s", "e">>
\* {"foo":1}
T_fooObj == <<"{", "\"", "f", "o", "o", "\"", ":", "1", "}">>
\* {"model":1}
T_modelObj == <<"{", "\"", "m", "o", "d", "e", "l", "\"", ":", "1", "}">>
\* {"messages":[]}
T_messagesObj ==
  <<"{", "\"", "m", "e", "s", "s", "a", "g", "e", "s", "\"", ":", "[", "]", "}">>
\* {"a":1}
T_aObj == <<"{", "\"", "a", "\"", ":", "1", "}">>
T_arr == <<"[", "1", "]">>
T_bad == <<"{">>
T_2_0001 == <<"2", ".", "0", "0", "0", "1">>
T_1_0001 == <<"1", ".", "0", "0", "0", "1">>
T_m0_0001 == <<"-", "0", ".", "0", "0", "0", "1">>
T_m2_0001 == <<"-", "2", ".", "0", "0", "0", "1">>

\* The options of the selects and checkbox groups of the model.
Opts(kind) ==
  IF kind \in {"string_select", "checks"} THEN <<<<"x">>, <<"y">>>> ELSE <<>>

\* Texts for a control of each kind: blank ones, a valid one, and an invalid
\* one where the kind has any.
Texts(kind) ==
  CASE kind = "bool" -> {<<>>, T_true, T_false}
    [] kind = "int" -> {<<>>, <<" ">>, <<" ", "2">>, <<"1", ".", "5">>}
    [] kind = "float" -> {<<>>, <<" ">>, <<"1", ".", "5">>, <<"x">>}
    [] kind = "string" -> {<<>>, <<" ", " ">>, <<" ", "x", " ">>}
    [] kind = "string_select" -> {<<>>, <<"x">>, <<"y">>}
    [] kind = "stop_lines" -> {<<>>, <<" ", "\n", " ">>, <<"x">>, <<"x", "\n", " ", "y">>}
    [] kind = "checks" -> {<<>>, <<<<"y">>>>, <<<<"x">>, <<"y">>>>}
    [] kind = "json" -> {<<>>, <<" ", "\n">>, T_arr, T_bad}

\* One body field and one request option of a kind, one of them required.
KindEnv(kind, bodyRequired) ==
  Env(<<Field(IF kind = "stop_lines" THEN K_stop ELSE K_a, kind, bodyRequired, Opts(kind),
              Texts(kind))>>,
      <<Field(K_b, kind, ~bodyRequired, Opts(kind), Texts(kind))>>, FALSE,
      {<<>>}, {<<>>, T_aObj}, FALSE, FALSE, NoItem)

\* A body field, an option and extra keys of one name.
FooEnv ==
  Env(<<Field(K_foo, "int", FALSE, <<>>, {<<>>, <<"2">>, <<"x">>})>>,
      <<Field(K_foo, "int", FALSE, <<>>, {<<>>, <<"3">>})>>, FALSE,
      {<<>>, <<" ", "m">>}, {<<>>, T_fooObj, T_arr, T_bad, T_modelObj}, FALSE, FALSE, NoItem)

\* A flat schema that lists model and messages, and an option named model.
ModelEnv ==
  Env(<<Field(K_model, "int", FALSE, <<>>, {<<>>, <<"5">>}),
        Field(K_messages, "json", FALSE, <<>>, {<<>>, T_arr}),
        Field(K_foo, "string", FALSE, <<>>, {<<>>, <<"x">>})>>,
      <<Field(K_model, "int", FALSE, <<>>, {<<>>, <<"7">>})>>, TRUE,
      {<<>>, <<"m">>}, {<<>>, T_modelObj, T_messagesObj}, FALSE, FALSE, NoItem)

TemperatureEnv ==
  Env(<<Field(K_temperature, "float", FALSE, <<>>,
              {<<>>, <<"0">>, <<"2">>, T_2_0001, T_m0_0001, <<"x">>}),
        Field(K_top_p, "float", FALSE, <<>>, {<<>>, <<"0">>, <<"1">>, T_1_0001, T_m0_0001})>>,
      <<>>, FALSE, {<<>>}, {<<>>}, FALSE, FALSE, NoItem)

PenaltyEnv ==
  Env(<<Field(K_presence_penalty, "float", FALSE, <<>>,
              {<<>>, <<"-", "2">>, <<"2">>, T_m2_0001, T_2_0001}),
        Field(K_frequency_penalty, "float", TRUE, <<>>,
              {<<>>, <<"-", "2">>, <<"2">>, T_m2_0001, T_2_0001})>>,
      <<>>, FALSE, {<<>>}, {<<>>}, FALSE, FALSE, NoItem)

\* logit_bias, a temperature that is free JSON, and an option named
\* temperature.
LogitBiasEnv ==
  Env(<<Field(K_logit_bias, "json", FALSE, <<>>, {<<>>, <<"{", "}">>, T_arr, <<"1">>, T_bad}),
        Field(K_temperature, "json", FALSE, <<>>, {<<>>, <<"3">>, <<"\"", "3", "\"">>})>>,
      <<Field(K_temperature, "float", FALSE, <<>>, {<<>>, <<"3">>})>>, FALSE,
      {<<>>, <<"m">>}, {<<>>}, FALSE, FALSE, NoItem)

\* A small form with a working storage and clipboard.
CopyEnv(stored) ==
  Env(<<Field(K_n, "int", FALSE, <<>>, {<<>>, <<"1">>, <<"x">>})>>, <<>>, FALSE,
      {<<>>, <<"m">>}, {<<>>, T_bad}, TRUE, TRUE, stored)

\* A draft an earlier visit stored: {"model":"m","auto":{"n":"1"},"options":{}}
StoredDraft ==
  Stringify(JObj(<<[k |-> K_model, v |-> JStr(<<"m">>)],
                   [k |-> K_auto, v |-> JObj(<<[k |-> K_n, v |-> JStr(<<"1">>)]>>)],
                   [k |-> K_options, v |-> JObj(<<>>)]>>))

Envs ==
  {KindEnv(k, r) : k \in Kinds, r \in BOOLEAN}
    \cup {FooEnv, ModelEnv, TemperatureEnv, PenaltyEnv, LogitBiasEnv,
          CopyEnv(NoItem), CopyEnv(Item(StoredDraft))}

(***************************************************************************)
(* The page.                                                               *)
(***************************************************************************)
VARIABLES
  env,           \* the environment of this visit
  phase,         \* "loading" until the schema promise settles, then "ready" or "failed"
  autoItems,     \* the rendered body fields (autoParamsEl)
  optItems,      \* the rendered request options (requestOptionsEl)
  form,          \* the raw state of the controls: [model, extra, auto, opts]
  errors,        \* the messages errorsEl shows
  output,        \* outputEl.value
  hint,          \* hintEl.textContent
  toastText,     \* the text of the last toast
  storage,       \* the local storage item of CHAT_CREATE_DRAFT_KEY
  persistTimer,  \* how many timeouts of schedulePersist are pending
  clipboard      \* the clipboard: [has, raw]

vars ==
  <<env, phase, autoItems, optItems, form, errors, output, hint, toastText, storage,
    persistTimer, clipboard>>

BlankForm(ai, oi) ==
  [model |-> <<>>, extra |-> <<>>,
   auto |-> [i \in 1..Len(ai) |-> <<>>], opts |-> [i \in 1..Len(oi) |-> <<>>]]

\* RenderedBody with a filter of the name model only.
RenderedBodyKeepsMessages(schema) ==
  SelectSeq(IF schema.has_body_fields THEN schema.body_fields ELSE schema.fields,
            LAMBDA f : f.name # K_model)

\* RenderedBody without the filter.
RenderedBodyUnfiltered(schema) ==
  IF schema.has_body_fields THEN schema.body_fields ELSE schema.fields

\* (schema.body_fields || schema.fields || []).filter(name is not model, messages)
RenderedBody(schema) ==
  SelectSeq(IF schema.has_body_fields THEN schema.body_fields ELSE schema.fields,
            LAMBDA f : f.name # K_model /\ f.name # K_messages)

\* schema.request_options || []
RenderedOptions(schema) == schema.request_options

\* SyncOutput as the README describes it: no text unless the pass is ok.
SyncOutputIfOk(res) == IF res.ok THEN Stringify(JObj(res.merged)) ELSE <<>>

\* The text sync puts into outputEl: JSON.stringify(res.merged || {}).
SyncOutput(res) == Stringify(JObj(res.merged))

\* What sync displays for the outcome res of the validation pass.
Display(res) ==
  [res |-> res, errors |-> res.errors, output |-> SyncOutput(res),
   hint |-> IF res.ok THEN "ok" ELSE "failed"]

\* sync(): the validation pass and what it displays.
sync(f, ai, oi) == Display(validateAndBuild(f, ai, oi))

\* CopyAllowed without the test.
CopyAlways(res) == TRUE

\* The test of the copy handler: !res || !res.ok refuses.
CopyAllowed(res) == res.ok

\* writeDraft: setItem of the stringified draft, a throw ignored.
writeDraft(draft) == IF env.storageWritable THEN Item(Stringify(draft)) ELSE storage

Init ==
  /\ env \in Envs
  /\ phase = "loading"
  /\ autoItems = <<>>
  /\ optItems = <<>>
  /\ form = BlankForm(<<>>, <<>>)
  /\ errors = <<>>
  /\ output = <<>>
  /\ hint = ""
  /\ toastText = ""
  /\ storage = env.stored
  /\ persistTimer = 0
  /\ clipboard = NoItem

\* clearTimeout(persistTimer): the handle names the newest timeout, and the
\* timeouts have one delay and fire in the order they were set, so the newest
\* is pending whenever any is.
clearTimeout(n) == IF n > 0 THEN n - 1 ELSE 0

\* schedulePersist() without its clearTimeout.
schedulePersistNoCancel(n) == n + 1

\* schedulePersist() with n timeouts pending: the newest cancelled, one set.
schedulePersist(n) == clearTimeout(n) + 1

\* The input and change handlers with the form f: s is what sync() displays,
\* then schedulePersist() restarts the timer.
Synced(f, s) ==
  /\ form' = f
  /\ errors' = s.errors
  /\ output' = s.output
  /\ hint' = s.hint
  /\ persistTimer' = schedulePersist(persistTimer)
  /\ UNCHANGED <<env, phase, autoItems, optItems, toastText, storage, clipboard>>

OnInput(f) == Synced(f, sync(f, autoItems, optItems))

\* The user edits the model input.
InputModel == \E t \in env.inputs.model : t # form.model /\ OnInput([form EXCEPT !.model = t])

\* The user edits the extra text area.
InputExtra == \E t \in env.inputs.extra : t # form.extra /\ OnInput([form EXCEPT !.extra = t])

\* The user edits the control of a body field.
InputAuto ==
  \E i \in 1..Len(autoItems) : \E t \in autoItems[i].inputs :
    t # form.auto[i] /\ OnInput([form EXCEPT !.auto[i] = t])

\* The user edits the control of a request option.
InputOption ==
  \E i \in 1..Len(optItems) : \E t \in optItems[i].inputs :
    t # form.opts[i] /\ OnInput([form EXCEPT !.opts[i] = t])

\* A change event (or an input event of the search box): the same handler,
\* the form as it is.
Change == OnInput(form)

\* The timer of schedulePersist fires: writeDraft(snapshotForm()).
PersistFire ==
  /\ persistTimer > 0
  /\ persistTimer' = persistTimer - 1
  /\ storage' = writeDraft(snapshotForm(form, autoItems, optItems))
  /\ UNCHANGED <<env, phase, autoItems, optItems, form, errors, output, hint, toastText,
                 clipboard>>

\* reset() on the items ai, oi: the form blanked, sync(), clearDraft(), the
\* output emptied.  [form, errors, output, hint, storage]
reset(ai, oi) ==
  [form |-> BlankForm(ai, oi), errors |-> sync(BlankForm(ai, oi), ai, oi).errors,
   output |-> <<>>, hint |-> "reset", storage |-> NoItem]

\* The state after reset() with outcome r.
AfterReset(r) ==
  /\ form' = r.form
  /\ errors' = r.errors
  /\ output' = r.output
  /\ hint' = r.hint
  /\ storage' = r.storage

\* A click on the reset button: reset(), then the toast.
ClickReset ==
  /\ AfterReset(reset(autoItems, optItems))
  /\ toastText' = "reset"
  /\ UNCHANGED <<env, phase, autoItems, optItems, persistTimer, clipboard>>

\* The copy handler after its sync() displayed s: the refusal, or the copy of
\* the text read from outputEl, which the clipboard takes or not.
CopyWith(s) ==
  /\ errors' = s.errors
  /\ output' = s.output
  /\ hint' = s.hint
  /\ IF ~CopyAllowed(s.res)
       THEN toastText' = "refused" /\ clipboard' = clipboard
       ELSE IF env.clipboardAllowed
         THEN toastText' = "copied" /\ clipboard' = Item(s.output)
         ELSE toastText' = "copy_failed" /\ clipboard' = clipboard
  /\ UNCHANGED <<env, phase, autoItems, optItems, form, storage, persistTimer>>

\* A click on the copy button.
ClickCopy == CopyWith(sync(form, autoItems, optItems))

\* The draft applied to the form f and synced: s is what sync() displays.
Restored(f, s) ==
  /\ form' = f
  /\ errors' = s.errors
  /\ output' = s.output
  /\ hint' = s.hint

\* applyDraft(draft); sync()
Restore(f, ai, oi) == Restored(f, sync(f, ai, oi))

\* After the fields are rendered and the draft read: reset(), and a draft
\* with keys is applied and synced.
Loaded(ai, oi, draft) ==
  /\ phase' = "ready"
  /\ autoItems' = ai
  /\ optItems' = oi
  /\ storage' = NoItem
  /\ IF Len(draft) > 0
       THEN Restore(applyDraft(draft, BlankForm(ai, oi), ai, oi), ai, oi)
       ELSE AfterReset(reset(ai, oi))
  /\ UNCHANGED <<env, toastText, persistTimer, clipboard>>

\* The schema promise fulfils.
LoadOk ==
  /\ phase = "loading"
  /\ Loaded(RenderedBody(env.schema), RenderedOptions(env.schema), readDraft(storage))

\* The message of the catch of the schema promise.
LoadError == [field |-> <<>>, kind |-> "load"]

\* The schema promise rejects: a fetch that is not ok or a document that
\* does not parse.
LoadFail ==
  /\ phase = "loading"
  /\ phase' = "failed"
  /\ errors' = <<LoadError>>
  /\ output' = <<>>
  /\ hint' = "load_failed"
  /\ UNCHANGED <<env, autoItems, optItems, form, toastText, storage, persistTimer, clipboard>>

Next ==
  \/ InputModel
  \/ InputExtra
  \/ InputAuto
  \/ InputOption
  \/ Change
  \/ PersistFire
  \/ ClickReset
  \/ ClickCopy
  \/ LoadOk
  \/ LoadFail

Spec == Init /\ [][Next]_vars

(***************************************************************************)
(* The classification of a schema field: fieldKind and the tests on the    *)
(* type and description texts it is made of.  A descriptor is              *)
(* [name, type, description, required], its texts sequences of characters. *)
(***************************************************************************)
LowerChars ==
  <<"a", "b", "c", "d", "e", "f", "g", "h", "i", "j", "k", "l", "m", "n", "o", "p", "q",
    "r", "s", "t", "u", "v", "w", "x", "y", "z">>

UpperChars ==
  <<"A", "B", "C", "D", "E", "F", "G", "H", "I", "J", "K", "L", "M", "N", "O", "P", "Q",
    "R", "S", "T", "U", "V", "W", "X", "Y", "Z">>

\* One character under the i flag of a pattern.
LowerChar(c) ==
  IF \E n \in 1..26 : UpperChars[n] = c
    THEN LowerChars[CHOOSE n \in 1..26 : UpperChars[n] = c]
    ELSE c

LowerCase(s) == [i \in 1..Len(s) |-> LowerChar(s[i])]

\* \w
IsWordChar(c) ==
  \/ \E n \in 1..26 : LowerChars[n] = c \/ UpperChars[n] = c
  \/ IsDigit(c)
  \/ c = "_"

\* The text w stands in s at place i.
HasAt(s, i, w) == i + Len(w) - 1 <= Len(s) /\ SubSeq(s, i, i + Len(w) - 1) = w

\* /w/.test(s) for a literal text w
Contains(s, w) == \E i \in 1..Len(s) : HasAt(s, i, w)

\* /\bw\b/.test(s) for a text w of word characters
HasWord(s, w) ==
  \E i \in 1..Len(s) :
    /\ HasAt(s, i, w)
    /\ (i = 1 \/ ~IsWordChar(s[i - 1]))
    /\ (i + Len(w) > Len(s) \/ ~IsWordChar(s[i + Len(w)]))

\* The least place from i on where s has the character c, 0 if none.
NextChar(s, i, c) ==
  IF \E j \in i..Len(s) : s[j] = c
    THEN CHOOSE j \in i..Len(s) : s[j] = c /\ \A m \in i..(j - 1) : s[m] # c
    ELSE 0

RECURSIVE QuotedFrom(_, _, _)
\* The captures of the global pattern q([^q]+)q in s from place i on.
QuotedFrom(s, i, q) ==
  IF i > Len(s) THEN <<>>
  ELSE IF s[i] # q THEN QuotedFrom(s, i + 1, q)
  ELSE IF NextChar(s, i + 1, q) = 0 THEN <<>>
  ELSE IF NextChar(s, i + 1, q) = i + 1 THEN QuotedFrom(s, i + 1, q)
  ELSE <<SubSeq(s, i + 1, NextChar(s, i + 1, q) - 1)>>
         \o QuotedFrom(s, NextChar(s, i + 1, q) + 1, q)

\* The backtick of a description; a TLA+ string cannot hold the character
\* itself, so the texts of the model carry this one in its place.
BackTick == "~"

W_bool == <<"b", "o", "o", "l">>
W_int == <<"i", "n", "t">>
W_float == <<"f", "l", "o", "a", "t">>
W_str == <<"s", "t", "r">>
W_Optional == <<"O", "p", "t", "i", "o", "n", "a", "l", "[">>
W_Union == <<"U", "n", "i", "o", "n", "[">>
W_Literal == <<"L", "i", "t", "e", "r", "a", "l", "[">>
W_ListLiteral == <<"L", "i", "s", "t", "[">> \o W_Literal

isBoolType(typeStr) == HasWord(typeStr, W_bool) \/ Contains(typeStr, W_Optional \o W_bool \o <<"]">>)

isIntType(typeStr) == HasWord(typeStr, W_int) \/ Contains(typeStr, W_Optional \o W_int \o <<"]">>)

isFloatType(typeStr) ==
  HasWord(typeStr, W_float) \/ Contains(typeStr, W_Optional \o W_float \o <<"]">>)

\* The last place of the run of characters without a line break that
\* starts at place i (i - 1 for an empty run).
LineEnd(s, i) ==
  IF \E j \in i..Len(s) : s[j] \in {"\n", "\r"}
    THEN (CHOOSE j \in i..Len(s) : s[j] \in {"\n", "\r"}
                                   /\ \A m \in i..(j - 1) : s[m] \notin {"\n", "\r"}) - 1
    ELSE Len(s)

\* The places where /Literal\[(.+)\]/ matches: the text, one character at
\* least, and a closing bracket before the end of the line.
LiteralPlaces(s) ==
  {i \in 1..Len(s) :
     /\ HasAt(s, i, W_Literal)
     /\ \E j \in (i + Len(W_Literal) + 1)..LineEnd(s, i + Len(W_Literal)) : s[j] = "]"}

\* The capture of the match at place i: up to the last closing bracket of
\* the line.
LiteralCapture(s, i) ==
  SubSeq(s, i + Len(W_Literal),
         (CHOOSE j \in (i + Len(W_Literal) + 1)..LineEnd(s, i + Len(W_Literal)) :
            /\ s[j] = "]"
            /\ \A m \in (j + 1)..LineEnd(s, i + Len(W_Literal)) : s[m] # "]") - 1)

Least(S) == CHOOSE i \in S : \A j \in S : i <= j

\* parseLiteralOptionsFromType: the double-quoted options, <<>> for null.
parseLiteralOptionsFromType(typeStr) ==
  IF LiteralPlaces(typeStr) = {} THEN <<>>
  ELSE QuotedFrom(LiteralCapture(typeStr, Least(LiteralPlaces(typeStr))), 1, "\"")

\* x.match(/^Optional\[(.+)\]$/) of a text without white space
UnwrapOptional(x) ==
  IF HasAt(x, 1, W_Optional) /\ Len(x) >= Len(W_Optional) + 2 /\ x[Len(x)] = "]"
    THEN SubSeq(x, Len(W_Optional) + 1, Len(x) - 1)
    ELSE x

\* The depth after the character ch.
DepthAfter(depth, ch) ==
  IF ch \in {"[", "(", "{"} THEN depth + 1
  ELSE IF ch \in {"]", ")", "}"} THEN (IF depth > 0 THEN depth - 1 ELSE 0)
  ELSE depth

RECURSIVE SplitTop(_, _, _, _, _)
\* The loop of isStringType over inner: the members at the commas of depth 0.
SplitTop(inner, i, cur, depth, parts) ==
  IF i > Len(inner) THEN (IF cur # <<>> THEN Append(parts, cur) ELSE parts)
  ELSE IF inner[i] = "," /\ DepthAfter(depth, inner[i]) = 0
    THEN SplitTop(inner, i + 1, <<>>, DepthAfter(depth, inner[i]), Append(parts, cur))
    ELSE SplitTop(inner, i + 1, Append(cur, inner[i]), DepthAfter(depth, inner[i]), parts)

\* Some member of the union is str.
SomeStr(parts) == \E n \in 1..Len(parts) : UnwrapOptional(parts[n]) = W_str

\* base is the type without white space and without its Optional.
IsStringBase(base) ==
  IF base = W_str THEN TRUE
  ELSE IF ~HasAt(base, 1, W_Union) THEN FALSE
  ELSE SomeStr(SplitTop(SubSeq(base, Len(W_Union) + 1, Len(base) - 1), 1, <<>>, 0, <<>>))

isStringType(typeStr) ==
  IsStringBase(UnwrapOptional(SelectSeq(typeStr, LAMBDA c : ~IsWs(c) /\ c # "\r")))

W_supported_values ==
  <<"s", "u", "p", "p", "o", "r", "t", "e", "d", " ", "v", "a", "l", "u", "e", "s">>
W_supported_values_are == W_supported_values \o <<" ", "a", "r", "e">>
W_currently_supported ==
  <<"c", "u", "r", "r", "e", "n", "t", "l", "y", " ", "s", "u", "p", "p", "o", "r", "t", "e", "d">>
W_possible_values ==
  <<"p", "o", "s", "s", "i", "b", "l", "e", " ", "v", "a", "l", "u", "e", "s">>

\* d is the description in lower case.
LooksLikeEnum(d) ==
  \/ Contains(d, W_supported_values_are)
  \/ Contains(d, W_supported_values)
  \/ Contains(d, W_currently_supported)
  \/ Contains(d, W_possible_values)

\* The longest option of a select.
MaxOptionLen == 32

RECURSIVE Uniq(_, _)
\* Array.from(new Set(opts)): the first of each.
Uniq(opts, seen) ==
  IF opts = <<>> THEN <<>>
  ELSE IF Head(opts) \in seen THEN Uniq(Tail(opts), seen)
  ELSE <<Head(opts)>> \o Uniq(Tail(opts), seen \cup {Head(opts)})

\* uniq.length >= 2 ? uniq : null
TwoOrNull(uniq) == IF Len(uniq) >= 2 THEN uniq ELSE <<>>

\* parseBacktickedOptionsFromDescription: the options, <<>> for null.
parseBacktickedOptionsFromDescription(description) ==
  IF ~LooksLikeEnum(LowerCase(description)) THEN <<>>
  ELSE TwoOrNull(Uniq(SelectSeq(QuotedFrom(description, 1, BackTick),
                                LAMBDA o : Len(o) <= MaxOptionLen), {}))

\* fieldKind with the string test before the tests for bool, int and float.
fieldKindStringFirst(f) ==
  IF f.name = K_stop THEN "stop_lines"
  ELSE IF parseLiteralOptionsFromType(f.type) # <<>> /\ Contains(f.type, W_ListLiteral)
    THEN "checks"
  ELSE IF isStringType(f.type)
    THEN (IF parseBacktickedOptionsFromDescription(f.description) # <<>>
            THEN "string_select" ELSE "string")
  ELSE IF isBoolType(f.type) THEN "bool"
  ELSE IF isIntType(f.type) THEN "int"
  ELSE IF isFloatType(f.type) THEN "float"
  ELSE "json"

\* fieldKind: the first test that holds gives the kind.
fieldKind(f) ==
  IF f.name = K_stop THEN "stop_lines"
  ELSE IF parseLiteralOptionsFromType(f.type) # <<>> /\ Contains(f.type, W_ListLiteral)
    THEN "checks"
  ELSE IF isBoolType(f.type) THEN "bool"
  ELSE IF isIntType(f.type) THEN "int"
  ELSE IF isFloatType(f.type) THEN "float"
  ELSE IF isStringType(f.type)
    THEN (IF parseBacktickedOptionsFromDescription(f.description) # <<>>
            THEN "string_select" ELSE "string")
  ELSE "json"

\* The options of the control of a field of the kind.
OptionsOf(f, kind) ==
  IF kind = "string_select" THEN parseBacktickedOptionsFromDescription(f.description)
  ELSE IF kind = "checks" THEN parseLiteralOptionsFromType(f.type)
  ELSE <<>>

\* The item renderField makes of f once fieldKind has given the kind: the
\* data-field, data-kind and data-required attributes and the options.
RenderedAs(f, kind) ==
  [name |-> f.name, kind |-> kind, required |-> f.required, opts |-> OptionsOf(f, kind),
   inputs |-> {}]

renderField(f) == RenderedAs(f, fieldKind(f))

RenderFields(fs) == [i \in 1..Len(fs) |-> renderField(fs[i])]

\* Type texts of the model.
\* bool
Ty_bool ==
  <<"b", "o", "o", "l">>
\* Optional[bool]
Ty_OptionalBool ==
  <<"O", "p", "t", "i", "o", "n", "a", "l", "[", "b", "o", "o", "l", "]">>
\* boolean
Ty_boolean ==
  <<"b", "o", "o", "l", "e", "a", "n">>
\* int
Ty_int ==
  <<"i", "n", "t">>
\* Optional[float]
Ty_float ==
  <<"O", "p", "t", "i", "o", "n", "a", "l", "[", "f", "l", "o", "a", "t", "]">>
\* str
Ty_str ==
  <<"s", "t", "r">>
\* Optional[ str ]
Ty_OptionalStr ==
  <<"O", "p", "t", "i", "o", "n", "a", "l", "[", " ", "s", "t", "r", " ", "]">>
\* Union[str, int]
Ty_UnionStrInt ==
  <<"U", "n", "i", "o", "n", "[", "s", "t", "r", ",", " ", "i", "n", "t", "]">>
\* Union[str, List[str]]
Ty_UnionStrListStr ==
  <<"U", "n", "i", "o", "n", "[", "s", "t", "r", ",", " ", "L", "i", "s", "t", "[",
    "s", "t", "r", "]", "]">>
\* Union[bool, str]
Ty_UnionBoolStr ==
  <<"U", "n", "i", "o", "n", "[", "b", "o", "o", "l", ",", " ", "s", "t", "r", "]">>
\* List[str]
Ty_ListStr ==
  <<"L", "i", "s", "t", "[", "s", "t", "r", "]">>
\* Dict[str, str]
Ty_DictStrStr ==
  <<"D", "i", "c", "t", "[", "s", "t", "r", ",", " ", "s", "t", "r", "]">>
\* List[Literal["a", "b"]]
Ty_ListLiteralAB ==
  <<"L", "i", "s", "t", "[", "L", "i", "t", "e", "r", "a", "l", "[", "\"", "a", "\"",
    ",", " ", "\"", "b", "\"", "]", "]">>
\* List[Literal["int"]]
Ty_ListLiteralInt ==
  <<"L", "i", "s", "t", "[", "L", "i", "t", "e", "r", "a", "l", "[", "\"", "i", "n",
    "t", "\"", "]", "]">>
\* List[Literal[1, 2]]
Ty_ListLiteral1 ==
  <<"L", "i", "s", "t", "[", "L", "i", "t", "e", "r", "a", "l", "[", "1", ",", " ",
    "2", "]", "]">>
\* Literal["a", "b"]
Ty_LiteralAB ==
  <<"L", "i", "t", "e", "r", "a", "l", "[", "\"", "a", "\"", ",", " ", "\"", "b", "\"",
    "]">>
\* (the empty text)
Ty_empty == <<>>

Types ==
  {Ty_bool, Ty_OptionalBool, Ty_boolean, Ty_int, Ty_float,
   Ty_str, Ty_OptionalStr, Ty_UnionStrInt, Ty_UnionStrListStr, Ty_UnionBoolStr,
   Ty_ListStr, Ty_DictStrStr, Ty_ListLiteralAB, Ty_ListLiteralInt, Ty_ListLiteral1,
   Ty_LiteralAB, Ty_empty}

\* Description texts of the model.
\* (the empty text)
D_none == <<>>
\* Supported values are ~a~ and ~b~.
D_supported ==
  <<"S", "u", "p", "p", "o", "r", "t", "e", "d", " ", "v", "a", "l", "u", "e", "s",
    " ", "a", "r", "e", " ", BackTick, "a", BackTick, " ", "a", "n", "d", " ",
    BackTick, "b", BackTick, ".">>
\* Possible values: ~a~.
D_possibleOne ==
  <<"P", "o", "s", "s", "i", "b", "l", "e", " ", "v", "a", "l", "u", "e", "s", ":",
    " ", BackTick, "a", BackTick, ".">>
\* Either ~a~ or ~b~.
D_noCue ==
  <<"E", "i", "t", "h", "e", "r", " ", BackTick, "a", BackTick, " ", "o", "r", " ",
    BackTick, "b", BackTick, ".">>
\* Currently supported: ~a~, ~a~.
D_currentlyTwice ==
  <<"C", "u", "r", "r", "e", "n", "t", "l", "y", " ", "s", "u", "p", "p", "o", "r",
    "t", "e", "d", ":", " ", BackTick, "a", BackTick, ",", " ", BackTick, "a",
    BackTick, ".">>
\* possible values ~a~ ~xxxxxxxxxxxxxxxxxxxxxxxxxxxxxxxxx~
D_long ==
  <<"p", "o", "s", "s", "i", "b", "l", "e", " ", "v", "a", "l", "u", "e", "s", " ",
    BackTick, "a", BackTick, " ", BackTick, "x", "x", "x", "x", "x", "x", "x", "x",
    "x", "x", "x", "x", "x", "x", "x", "x", "x", "x", "x", "x", "x", "x", "x", "x",
    "x", "x", "x", "x", "x", "x", "x", "x", "x", BackTick>>

Descriptions == {D_none, D_supported, D_possibleOne, D_noCue, D_currentlyTwice, D_long}

Descriptor(name, type, description, required) ==
  [name |-> name, type |-> type, description |-> description, required |-> required]

Descriptors == {Descriptor(n, t, d, FALSE) : n \in {K_stop, K_a}, t \in Types, d \in Descriptions}

\* A schema of one body field and one request option with the descriptor.
DescriptorEnv(f) == Env(<<f>>, <<f>>, FALSE, {<<>>}, {<<>>}, FALSE, FALSE, NoItem)

\* The page before the load of a schema of one descriptor.
KindInit ==
  /\ env \in {DescriptorEnv(f) : f \in Descriptors}
  /\ phase = "loading"
  /\ autoItems = <<>>
  /\ optItems = <<>>
  /\ form = BlankForm(<<>>, <<>>)
  /\ errors = <<>>
  /\ output = <<>>
  /\ hint = ""
  /\ toastText = ""
  /\ storage = env.stored
  /\ persistTimer = 0
  /\ clipboard = NoItem

\* The schema promise fulfils: every field of the two lists is rendered.
KindLoadOk ==
  /\ phase = "loading"
  /\ Loaded(RenderFields(RenderedBody(env.schema)), RenderFields(RenderedOptions(env.schema)),
            readDraft(storage))

KindNext == KindLoadOk

KindSpec == KindInit /\ [][KindNext]_vars

(***************************************************************************)
(* The claims.  What the page displays is read from the state: the         *)
(* document is the text of the output area parsed back, the errors are the *)
(* messages of the error area.                                             *)
(***************************************************************************)
\* The last thing displayed is the outcome of a validation pass: sync() sets
\* the hint to one of these two, reset() and the load failure to others.
Shown == hint \in {"ok", "failed"}

\* The document the output area shows.
Doc == parseJsonOpt(output).val.v

ErrorSet == {errors[p] : p \in 1..Len(errors)}

Count(es, m) == Cardinality({p \in 1..Len(es) : es[p] = m})

Without(xs, i) == SubSeq(xs, 1, i - 1) \o SubSeq(xs, i + 1, Len(xs))

\* es is e0 with the one message m inserted somewhere.
InsertedOne(es, e0, m) ==
  /\ Len(es) = Len(e0) + 1
  /\ \E p \in 1..Len(es) : es[p] = m /\ Without(es, p) = e0

\* The rendered controls: [h, i], the host and the place in it.
SlotsOf(h, items) == {[h |-> h, i |-> i] : i \in 1..Len(items)}

Slots == SlotsOf("auto", autoItems) \cup SlotsOf("opts", optItems)

FieldAt(s) == IF s.h = "auto" THEN autoItems[s.i] ELSE optItems[s.i]

RawAt(s) == IF s.h = "auto" THEN form.auto[s.i] ELSE form.opts[s.i]

CoercedAt(s) == Coerce(FieldAt(s).kind, RawAt(s))

\* An empty or whitespace-only input; for checkboxes, none checked.
Blank(s) == IF FieldAt(s).kind = "checks" THEN RawAt(s) = <<>> ELSE trimOrEmpty(RawAt(s)) = <<>>

\* The control holds a value that coerces.
Valued(s) == ~CoercedAt(s).threw /\ CoercedAt(s).value # Undefined

\* The validation pass on the form without the control s.
PassWithout(s) ==
  IF s.h = "auto"
    THEN validateAndBuild([form EXCEPT !.auto = Without(form.auto, s.i)],
                          Without(autoItems, s.i), optItems)
    ELSE validateAndBuild([form EXCEPT !.opts = Without(form.opts, s.i)],
                          autoItems, Without(optItems, s.i))

BodyValues == Collect(<<>>, autoItems, form.auto).values

OptionValues == Collect(<<>>, optItems, form.opts).values

ExtraObject == IF ParseExtra(form.extra).has THEN ParseExtra(form.extra).obj ELSE <<>>

ModelEntry ==
  IF trimOrEmpty(form.model) # <<>>
    THEN <<[k |-> K_model, v |-> JStr(trimOrEmpty(form.model))]>>
    ELSE <<>>

\* Some source other than the control s supplies the key of s.
SuppliedElsewhere(s) ==
  \/ \E s2 \in Slots \ {s} : FieldAt(s2).name = FieldAt(s).name
  \/ ObjHas(ExtraObject, FieldAt(s).name)
  \/ ObjHas(ModelEntry, FieldAt(s).name)

\* C1: for every rendered field of every kind, in both hosts, a blank input
\* of a field that is not required leaves the pass as it is without the
\* field: the same errors and the same document; no error names the field
\* and its key is not in the document, unless another control of that name,
\* the extra object or the model input supplies it.
C1_BlankOmitted ==
  Shown =>
    \A s \in Slots :
      (Blank(s) /\ ~FieldAt(s).required) =>
        /\ errors = PassWithout(s).errors
        /\ output = SyncOutput(PassWithout(s))
        /\ ~SuppliedElsewhere(s) =>
             /\ ~ObjHas(Doc, FieldAt(s).name)
             /\ \A e \in ErrorSet : e.field # FieldAt(s).name

\* A whitespace-only JSON field that is not required, beside a field with a
\* value: no error, and a document with the other field.
C1_Witness ==
  /\ Shown
  /\ errors = <<>>
  /\ \E s \in Slots :
       /\ FieldAt(s).kind = "json" /\ ~FieldAt(s).required
       /\ Blank(s) /\ RawAt(s) # <<>>
       /\ ~ObjHas(Doc, FieldAt(s).name)
  /\ \E s \in Slots : Valued(s) /\ ObjHas(Doc, FieldAt(s).name)

\* The value the precedence gives key k: option, else extra, else body field,
\* else the model input.
Precedence(k) ==
  IF ObjHas(OptionValues, k) THEN ObjGet(OptionValues, k)
  ELSE IF ObjHas(ExtraObject, k) THEN ObjGet(ExtraObject, k)
  ELSE IF ObjHas(BodyValues, k) THEN ObjGet(BodyValues, k)
  ELSE ObjGet(ModelEntry, k)

\* C2: the document holds the keys of the model input (if not empty), the
\* coerced body fields, the extra object and the coerced request options, and
\* each key has the value of the strongest source: options over extra over
\* body fields over the model input.  With extra {"foo":1}, body field foo = 2
\* and no option foo, the document has foo = 1.
C2_Precedence ==
  Shown =>
    /\ ObjKeys(Doc) =
         ObjKeys(OptionValues) \cup ObjKeys(ExtraObject) \cup ObjKeys(BodyValues)
           \cup ObjKeys(ModelEntry)
    /\ \A k \in ObjKeys(Doc) : ObjGet(Doc, k) = Precedence(k)
    /\ ( /\ ObjHas(ExtraObject, K_foo) /\ ObjGet(ExtraObject, K_foo) = Num(1 * Scale)
         /\ ObjHas(BodyValues, K_foo) /\ ObjGet(BodyValues, K_foo) = Num(2 * Scale)
         /\ ~ObjHas(OptionValues, K_foo) )
       => ObjGet(Doc, K_foo) = Num(1 * Scale)

\* extra {"foo":1}, the body field foo = 2, no option foo: foo is 1.
C2_Witness ==
  /\ Shown
  /\ form.extra = T_fooObj
  /\ ObjHas(BodyValues, K_foo) /\ ObjGet(BodyValues, K_foo) = Num(2 * Scale)
  /\ ~ObjHas(OptionValues, K_foo)
  /\ ObjHas(Doc, K_model)
  /\ ObjGet(Doc, K_foo) = Num(1 * Scale)

\* The keys of the sources that parsed.
ParsedKeys ==
  {FieldAt(s).name : s \in {s2 \in Slots : Valued(s2)}} \cup ObjKeys(ExtraObject)
    \cup ObjKeys(ModelEntry)

HasInvalid == (\E s \in Slots : CoercedAt(s).threw) \/ ParseExtra(form.extra).errors # <<>>

C5_CopyGated ==
  [][ /\ (ClickCopy /\ errors' # <<>>) => (toastText' = "refused" /\ clipboard' = clipboard)
      /\ clipboard' # clipboard =>
           /\ errors' = <<>>
           /\ hint' = "ok"
           /\ toastText' = "copied"
           /\ clipboard' = Item(output') ]_vars

\* A copy was refused after an earlier one was made: the clipboard still
\* holds the earlier text.
C5_Witness ==
  /\ clipboard.has
  /\ toastText = "refused"
  /\ errors # <<>>
  /\ clipboard.raw # output

RuleErrors(k, v) ==
  IF k = K_logit_bias THEN (IF v.t # "obj" THEN {NotObjectError(k)} ELSE {})
  ELSE IF v.t # "num" THEN {}
  ELSE IF k = K_temperature /\ (v.v < 0 \/ v.v > 2 * Scale) THEN {RangeError(k)}
  ELSE IF k = K_top_p /\ (v.v < 0 \/ v.v > 1 * Scale) THEN {RangeError(k)}
  ELSE IF k \in {K_presence_penalty, K_frequency_penalty}
            /\ (v.v < (-2) * Scale \/ v.v > 2 * Scale) THEN {RangeError(k)}
  ELSE {}

\* C7: a body field whose value violates a cross-field rule has its error
\* reported, and the document is the one of the pass without the field.
C7_RuleExcluded ==
  Shown =>
    \A s \in SlotsOf("auto", autoItems) :
      (Valued(s) /\ RuleErrors(FieldAt(s).name, CoercedAt(s).value) # {}) =>
        /\ RuleErrors(FieldAt(s).name, CoercedAt(s).value) \subseteq ErrorSet
        /\ output = SyncOutput(PassWithout(s))

\* The ranges of the four numeric rules: [k, lo, hi].
RangeRules ==
  {[k |-> K_temperature, lo |-> 0, hi |-> 2], [k |-> K_top_p, lo |-> 0, hi |-> 1],
   [k |-> K_presence_penalty, lo |-> -2, hi |-> 2],
   [k |-> K_frequency_penalty, lo |-> -2, hi |-> 2]}

\* The control of the float body field k holds the text t.
FloatFieldHolds(k, t) ==
  \E s \in SlotsOf("auto", autoItems) :
    FieldAt(s).name = k /\ FieldAt(s).kind = "float" /\ RawAt(s) = t

\* C8: for each of the four rules, the errors hold exactly one range message
\* of the field when its body value is a number below lo or above hi, and
\* none when it is a number from lo to hi, both included, is no number or is
\* absent.  The temperature texts 0 and 2 give no message, 2.0001 and -0.0001
\* give one.
C8_InclusiveRanges ==
  Shown =>
    /\ \A r \in RangeRules :
         Count(errors, RangeError(r.k)) =
           IF /\ ObjHas(BodyValues, r.k)
              /\ ObjGet(BodyValues, r.k).t = "num"
              /\ ~(r.lo * Scale <= ObjGet(BodyValues, r.k).v
                   /\ ObjGet(BodyValues, r.k).v <= r.hi * Scale)
             THEN 1 ELSE 0
    /\ \A t \in {<<"0">>, <<"2">>} :
         FloatFieldHolds(K_temperature, t) => RangeError(K_temperature) \notin ErrorSet
    /\ \A t \in {T_2_0001, T_m0_0001} :
         FloatFieldHolds(K_temperature, t) => RangeError(K_temperature) \in ErrorSet

\* temperature on its upper bound and top_p just above its own: the one
\* range message is that of top_p.
C8_Witness ==
  /\ Shown
  /\ FloatFieldHolds(K_temperature, <<"2">>)
  /\ FloatFieldHolds(K_top_p, T_1_0001)
  /\ errors = <<RangeError(K_top_p)>>

\* C9: a required field with a blank input, in either host, leaves the pass
\* as it is without the field, but for one message naming the field: the
\* same document, without the key unless another source supplies it, and the
\* same errors with the required message inserted.
C9_RequiredBlank ==
  Shown =>
    \A s \in Slots :
      (Blank(s) /\ FieldAt(s).required) =>
        /\ RequiredError(FieldAt(s).name) \in ErrorSet
        /\ InsertedOne(errors, PassWithout(s).errors, RequiredError(FieldAt(s).name))
        /\ output = SyncOutput(PassWithout(s))
        /\ ~SuppliedElsewhere(s) => ~ObjHas(Doc, FieldAt(s).name)

\* A required request option is blank, a body field has a value: one
\* message, and the body field in the document.
C9_Witness ==
  /\ Shown
  /\ \E s \in SlotsOf("opts", optItems) :
       /\ Blank(s) /\ FieldAt(s).required
       /\ errors = <<RequiredError(FieldAt(s).name)>>
       /\ ~ObjHas(Doc, FieldAt(s).name)
  /\ \E s \in SlotsOf("auto", autoItems) : Valued(s) /\ ObjHas(Doc, FieldAt(s).name)

\* C10 as stated: the key model of the document, if present, has a string.
C10_ModelIsString == Shown => (ObjHas(Doc, K_model) => ObjGet(Doc, K_model).t = "str")

\* C10 as the code has it: the key model of the document, if present and
\* supplied neither by the extra object nor by a request option, has the
\* trimmed text of the model input, which is not empty.
C10_Amended ==
  (Shown /\ ObjHas(Doc, K_model) /\ ~ObjHas(ExtraObject, K_model)
     /\ ~ObjHas(OptionValues, K_model)) =>
    /\ trimOrEmpty(form.model) # <<>>
    /\ ObjGet(Doc, K_model) = JStr(trimOrEmpty(form.model))

\* The model input " m" gives the key model the string "m".
C10_Witness ==
  /\ Shown
  /\ form.model = <<" ", "m">>
  /\ ~ObjHas(ExtraObject, K_model)
  /\ ObjHas(Doc, K_model)
  /\ ObjGet(Doc, K_model) = JStr(<<"m">>)

\* The schema lists a field of the name k.
SchemaLists(k) ==
  \E i \in 1..Len(env.schema.body_fields \o env.schema.fields) :
    (env.schema.body_fields \o env.schema.fields)[i].name = k

C12_LoadFailureFatal ==
  /\ [](phase = "failed" =>
          /\ errors = <<LoadError>>
          /\ output = <<>>
          /\ autoItems = <<>> /\ optItems = <<>>)
  /\ [][phase = "failed" => (phase' = "failed" /\ clipboard' = clipboard)]_vars

\* The kind of the first rule of the list whose condition holds.
FirstMatch(rules) ==
  rules[CHOOSE i \in 1..Len(rules) : rules[i].when /\ \A j \in 1..(i - 1) : ~rules[j].when].kind

Rule(when, kind) == [when |-> when, kind |-> kind]

\* The backtick-quoted tokens of a description.
Tokens(description) == QuotedFrom(description, 1, BackTick)

\* The rules as the claim words them: any list-of-literal type, and any
\* description with an enumeration cue and backtick-quoted tokens.
StatedRules(f) ==
  <<Rule(f.name = K_stop, "stop_lines"),
    Rule(Contains(f.type, W_ListLiteral), "checks"),
    Rule(isBoolType(f.type), "bool"),
    Rule(isIntType(f.type), "int"),
    Rule(isFloatType(f.type), "float"),
    Rule(isStringType(f.type) /\ LooksLikeEnum(LowerCase(f.description))
           /\ Len(Tokens(f.description)) >= 2, "string_select"),
    Rule(isStringType(f.type), "string"),
    Rule(TRUE, "json")>>

\* The rules with the two conditions as the code has them: a list-of-literal
\* type with a double-quoted option, and a description with an enumeration
\* cue and two different backtick-quoted tokens of at most 32 characters.
AmendedRules(f) ==
  <<Rule(f.name = K_stop, "stop_lines"),
    Rule(Contains(f.type, W_ListLiteral) /\ parseLiteralOptionsFromType(f.type) # <<>>,
         "checks"),
    Rule(isBoolType(f.type), "bool"),
    Rule(isIntType(f.type), "int"),
    Rule(isFloatType(f.type), "float"),
    Rule(/\ isStringType(f.type)
         /\ LooksLikeEnum(LowerCase(f.description))
         /\ Cardinality({Tokens(f.description)[n] : n \in
                           {m \in 1..Len(Tokens(f.description)) :
                              Len(Tokens(f.description)[m]) <= 32}}) >= 2,
         "string_select"),
    Rule(isStringType(f.type), "string"),
    Rule(TRUE, "json")>>

\* The descriptor the i-th rendered body field was made of.
DescriptorOf(i) == RenderedBody(env.schema)[i]

C14_StartupDraft ==
  /\ []((phase = "loading" /\ storage.has) => storage = env.stored)
  /\ [][(LoadOk /\ storage.has) => readDraft(storage) = readDraft(env.stored)]_vars

\* An input or change event of the page.
InputEvent == InputModel \/ InputExtra \/ InputAuto \/ InputOption \/ Change

\* A step that stores a draft.
DraftWritten == storage'.has /\ storage' # storage

\* C15: at most one persist timeout is pending; every input or change event
\* leaves exactly one pending, whatever was pending before; and every write of
\* a draft is the firing of that one timeout, stores the snapshot of the form
\* as it is when the timeout fires, and leaves none pending, so a burst of
\* events is followed by one write.
C15_Debounced ==
  /\ [](persistTimer \in {0, 1})
  /\ [][InputEvent => persistTimer' = 1]_vars
  /\ [][DraftWritten =>
          /\ persistTimer = 1
          /\ persistTimer' = 0
          /\ form' = form
          /\ storage'.raw = Stringify(snapshotForm(form, autoItems, optItems))]_vars

\* A page that started without a draft, where the model and a body field were
\* typed and the one write that followed stored the form as it is.
C15_Witness ==
  /\ phase = "ready"
  /\ ~env.stored.has
  /\ form.model # <<>>
  /\ \E i \in 1..Len(form.auto) : form.auto[i] # <<>>
  /\ persistTimer = 0
  /\ storage.has
  /\ storage.raw = Stringify(snapshotForm(form, autoItems, optItems))

\* C16: a startup that reads a stored draft with keys and applies it leaves
\* that draft in storage.
C16_DraftKept ==
  [][(LoadOk /\ Len(readDraft(storage)) > 0) => storage' = storage]_vars

\* C17: from a reset until the next input, change or copy (the hint shows the
\* reset text for that long) the form is blank and the output empty, and
\* once no persist timeout is pending the storage holds no draft.
C17_ResetClears ==
  hint = "reset" =>
    /\ form = BlankForm(autoItems, optItems)
    /\ output = <<>>
    /\ (persistTimer = 0 => ~storage.has)

====
